---- MODULE Spec2Model ----
(***************************************************************************)
(* The workflow wizard of actasynth-fe (WorkflowWizard and its four step   *)
(* components) together with the authenticated HTTP client (apiRequest)    *)
(* that the processing step drives through useExecuteWorkflow.             *)
(*                                                                         *)
(* Conventions                                                             *)
(*   - a content string is a sequence of one-character strings, so that    *)
(*     its length and its trimmed form are computed, not assumed;          *)
(*   - temperature is held in tenths (0.7 is 7, the slider runs 0..20 in   *)
(*     steps of 1);                                                        *)
(*   - the JavaScript values undefined and null are the strings Undefined  *)
(*     and Null;                                                           *)
(*   - a component that is not mounted has its local state at a fixed      *)
(*     blank value; which component is mounted is decided by step.         *)
(***************************************************************************)
EXTENDS Integers, Sequences, FiniteSets, TLC

VARIABLES
    step,        \* WorkflowWizard: useState<WorkflowStep>
    formData,    \* WorkflowWizard: useState<WorkflowFormData>
    result,      \* WorkflowWizard: useState<WorkflowResult | null>
    inputForm,   \* InputStep: react-hook-form state (values, errors)
    configForm,  \* ConfigStep: useState provider / temperature
    mutation,    \* ProcessingStep: the useExecuteWorkflow() mutation observer
    calls,       \* execute calls of the wizard that have not settled yet
    toast,       \* sonner: the newest toast still on screen
    lastEvent,   \* the operation that produced the current state
    probe,       \* one earlier Input submission, kept for comparison
    api,         \* one apiRequest invocation made by a query hook
    nav          \* one page request as the middleware handles it

vars == <<step, formData, result, inputForm, configForm, mutation,
          calls, toast, lastEvent, probe, api, nav>>

\* the state of the wizard and of its observers
wizardVars == <<step, formData, result, inputForm, configForm, mutation,
                calls, toast, lastEvent, probe>>

-----------------------------------------------------------------------------
(* Bounds of the model *)

\* the number of redirects the browser is followed through
MaxHops == 3

\* the run of blanks put before or after the text of a padded content string
MaxPad == 1

-----------------------------------------------------------------------------
(* Program constants *)

Undefined == "undefined"
Null == "null"

\* z.string().min(10, ...)
MinContentLength == 10
ContentTooShort == "Content must be at least 10 characters"

\* temperature: 0.7, in tenths
DefaultTemperature == 7
\* <Slider min={0} max={2} step={0.1}>, in tenths
SliderMin == 0
SliderMax == 20

Providers == {"openai", "anthropic", "google"}

SOURCE_OPTIONS ==
    <<"manual", "crm", "email", "call", "survey", "chat", "support_ticket", "other">>

WorkflowSteps == {"input", "config", "processing", "results"}

-----------------------------------------------------------------------------
(* Inputs the user can give *)

RECURSIVE Repeat(_, _)
Repeat(ch, n) == IF n = 0 THEN <<>> ELSE <<ch>> \o Repeat(ch, n - 1)

\* the empty string, a text one character short of the minimum (bare, and
\* with MaxPad blanks before or after it) and a text of the minimum length
Contents ==
    { <<>>, Repeat("x", MinContentLength) }
    \cup { Repeat(" ", pad[1]) \o Repeat("x", MinContentLength - 1) \o Repeat(" ", pad[2]) :
             pad \in {<<0, 0>>, <<MaxPad, 0>>, <<0, MaxPad>>} }

\* the source select is exercised with its first two options
Sources == {SOURCE_OPTIONS[1], SOURCE_OPTIONS[2]}

CustomerIds == {"", "CUST-12345"}

\* the slider's two ends and the default
SliderValues == {SliderMin, DefaultTemperature, SliderMax}

-----------------------------------------------------------------------------
(* WorkflowWizard: initial state *)

InitialFormData ==
    [ input       |-> [content |-> <<>>, source |-> "manual", customer_id |-> Undefined],
      provider    |-> "google",
      model       |-> Undefined,
      temperature |-> DefaultTemperature ]

\* result: null
NoResult == [isNull |-> TRUE]

-----------------------------------------------------------------------------
(* Values the remote side can produce *)

\* The fields of WorkflowResult that the client reads.
WorkflowResultOf(success, approved, rejection_reason, error) ==
    [ success    |-> success,
      self_check |-> [approved |-> approved, rejection_reason |-> rejection_reason],
      error      |-> error ]

RejectionReason == "Overall accuracy too low (0.65 < 0.7 threshold)"
ProviderErrorText ==
    "Provider error: OpenAI API rate limit exceeded. Please retry in 60 seconds."

WorkflowResults ==
    { WorkflowResultOf(TRUE, TRUE, Null, Null),
      WorkflowResultOf(TRUE, FALSE, RejectionReason, Null),
      WorkflowResultOf(FALSE, FALSE, RejectionReason, Null),
      WorkflowResultOf(FALSE, TRUE, Null, ProviderErrorText),
      WorkflowResultOf(FALSE, FALSE, RejectionReason, "Self-check rejected workflow") }

\* what supabase.auth.getSession() can do
SessionOutcomes ==
    { [kind |-> "session", access_token |-> "token-1"],
      [kind |-> "no_session"],
      [kind |-> "throws", isError |-> TRUE, message |-> "Auth session missing!"] }

\* fetch() rejecting: no HTTP response was received
NetworkFailures ==
    { [kind |-> "rejects", isError |-> TRUE, message |-> "Failed to fetch"] }

\* one entry of a validation-error detail array
ValidationEntry ==
    [loc |-> <<"body", "content">>, msg |-> "ensure this value has at least 10 characters"]

\* HTTP responses: status, status text and what response.json() finds in the body
ResponseOf(status, statusText, body) ==
    [ kind |-> "response", status |-> status, ok |-> (status >= 200 /\ status <= 299),
      statusText |-> statusText, body |-> body ]

SuccessResponses ==
    { ResponseOf(200, "OK", [kind |-> "result", value |-> r]) : r \in WorkflowResults }
    \cup { ResponseOf(200, "OK", [kind |-> "not_json"]) }

FailureResponses ==
    { ResponseOf(429, "Too Many Requests", [kind |-> "detail_string", detail |-> ProviderErrorText]),
      ResponseOf(422, "Unprocessable Entity", [kind |-> "detail_array", details |-> <<ValidationEntry>>]),
      ResponseOf(502, "Bad Gateway", [kind |-> "not_json"]),
      ResponseOf(503, "", [kind |-> "not_json"]),
      ResponseOf(500, "Internal Server Error", [kind |-> "json_null"]),
      ResponseOf(500, "Internal Server Error", [kind |-> "json_other"]) }

Responses == SuccessResponses \cup FailureResponses

-----------------------------------------------------------------------------
(* lib/api.ts: APIRequestError and apiRequest *)

NoDetails == [present |-> FALSE]
DetailsOf(d) == [present |-> TRUE, value |-> d]

APIRequestError(message, statusCode, details) ==
    [ name |-> "APIRequestError", message |-> message,
      statusCode |-> statusCode, details |-> details ]

\* Array.prototype.join on strings
RECURSIVE JoinStrings(_, _)
JoinStrings(parts, sep) ==
    IF Len(parts) = 0 THEN ""
    ELSE IF Len(parts) = 1 THEN parts[1]
    ELSE parts[1] \o sep \o JoinStrings(Tail(parts), sep)

\* detail.map((err) => `${err.loc.join('.')}: ${err.msg}`).join(', ')
ValidationMessage(detail) ==
    JoinStrings([i \in 1..Len(detail) |->
                    JoinStrings(detail[i].loc, ".") \o ": " \o detail[i].msg], ", ")

\* mutant of ApiHeaders: Authorization is built from session?.access_token
\* whether or not there is a session
MutApiHeadersAlwaysBearer(optionHeaders, session) ==
    LET base == [h \in {"Content-Type"} \cup DOMAIN optionHeaders |->
                    IF h \in DOMAIN optionHeaders THEN optionHeaders[h]
                    ELSE "application/json"]
    IN  [h \in DOMAIN base \cup {"Authorization"} |->
            IF h = "Authorization"
            THEN "Bearer " \o (IF session.kind = "session" THEN session.access_token
                               ELSE Undefined)
            ELSE base[h]]

\* headers: Content-Type, then the caller's headers, then Authorization when
\* the session has an access token
ApiHeaders(optionHeaders, session) ==
    LET base == [h \in {"Content-Type"} \cup DOMAIN optionHeaders |->
                    IF h \in DOMAIN optionHeaders THEN optionHeaders[h]
                    ELSE "application/json"]
    IN  IF session.kind = "session" /\ session.access_token # ""
        THEN [h \in DOMAIN base \cup {"Authorization"} |->
                IF h = "Authorization" THEN "Bearer " \o session.access_token
                ELSE base[h]]
        ELSE base

\* the header names of the model in the order the keys of the headers object
\* are created: Content-Type, the caller's keys, then Authorization when it
\* is a new key
HeaderKeys ==
    <<"Content-Type", "content-type", "X-Request-Id", "authorization", "Authorization">>

\* the case-insensitive name under which fetch() files a header
HeaderName ==
    [ h \in { HeaderKeys[i] : i \in DOMAIN HeaderKeys } |->
        CASE h \in {"Content-Type", "content-type"} -> "content-type"
          [] h \in {"authorization", "Authorization"} -> "authorization"
          [] OTHER -> "x-request-id" ]

RECURSIVE JoinValues(_, _, _)
JoinValues(headers, name, keys) ==
    IF keys = <<>> THEN ""
    ELSE LET rest == JoinValues(headers, name, Tail(keys))
         IN  IF Head(keys) \in DOMAIN headers /\ HeaderName[Head(keys)] = name
             THEN headers[Head(keys)] \o (IF rest = "" THEN "" ELSE ", " \o rest)
             ELSE rest

\* fetch(url, { headers }): the record is filled into a Headers list key by
\* key; keys that differ only in case are one header, whose value is their
\* values joined by ", "
FetchHeaders(headers) ==
    [ name \in { HeaderName[h] : h \in DOMAIN headers } |->
        JoinValues(headers, name, HeaderKeys) ]

\* the outer catch, for a thrown value that is not an APIRequestError
ApiCatch(thrown) ==
    APIRequestError(IF thrown.isError THEN thrown.message ELSE "Network error",
                    0, NoDetails)

\* mutant of ApiErrorOf: the validation entries are not kept as details
MutApiErrorOfDropsDetails(response) ==
    LET body == response.body
        fallback == "API request failed"
    IN  CASE body.kind = "detail_string" ->
                APIRequestError(body.detail, response.status, NoDetails)
          [] body.kind = "detail_array" ->
                APIRequestError(ValidationMessage(body.details), response.status, NoDetails)
          [] body.kind \in {"not_json", "json_null"} ->
                APIRequestError(IF response.statusText # "" THEN response.statusText
                                ELSE fallback,
                                response.status, NoDetails)
          [] OTHER ->
                APIRequestError(fallback, response.status, NoDetails)

\* if (!response.ok) { ... throw new APIRequestError(...) }. The inner catch
\* runs when response.json() rejects (body not JSON) and when reading
\* errorData.detail throws (body is the JSON value null).
ApiErrorOf(response) ==
    LET body == response.body
        fallback == "API request failed"
    IN  CASE body.kind = "detail_string" ->
                APIRequestError(body.detail, response.status, NoDetails)
          [] body.kind = "detail_array" ->
                APIRequestError(ValidationMessage(body.details), response.status,
                                DetailsOf(body.details))
          [] body.kind \in {"not_json", "json_null"} ->
                APIRequestError(IF response.statusText # "" THEN response.statusText
                                ELSE fallback,
                                response.status, NoDetails)
          [] OTHER ->
                APIRequestError(fallback, response.status, NoDetails)

Resolved(data) == [settled |-> "resolved", data |-> data]
Rejected(error) == [settled |-> "rejected", error |-> error]

\* mutant of ApiSettle: the catch block does not rethrow an APIRequestError
\* and wraps it like any other thrown value
MutApiSettleRewraps(fetched) ==
    IF fetched.kind = "rejects" THEN Rejected(ApiCatch(fetched))
    ELSE IF ~fetched.ok
         THEN Rejected(ApiCatch([isError |-> TRUE, message |-> ApiErrorOf(fetched).message]))
    ELSE IF fetched.body.kind = "not_json"
         THEN Rejected([name |-> "SyntaxError",
                        message |-> "Unexpected token < in JSON at position 0"])
         ELSE Resolved(fetched.body.value)

\* what the promise of apiRequest settles to once fetch() has settled.
\* "return response.json()" is not awaited inside the try block, so a body
\* that does not parse rejects the returned promise with the parser's
\* SyntaxError and the catch block does not see it.
ApiSettle(fetched) ==
    IF fetched.kind = "rejects" THEN Rejected(ApiCatch(fetched))
    ELSE IF ~fetched.ok THEN Rejected(ApiErrorOf(fetched))
    ELSE IF fetched.body.kind = "not_json"
         THEN Rejected([name |-> "SyntaxError",
                        message |-> "Unexpected token < in JSON at position 0"])
         ELSE Resolved(fetched.body.value)

-----------------------------------------------------------------------------
(* lib/queries/workflow.ts: useExecuteWorkflow *)

Digits == <<"0", "1", "2", "3", "4", "5", "6", "7", "8", "9">>

\* Number.prototype.toString of a temperature given in tenths
TemperatureToString(t) ==
    IF t % 10 = 0 THEN Digits[(t \div 10) + 1]
    ELSE Digits[(t \div 10) + 1] \o "." \o Digits[(t % 10) + 1]

\* JSON.stringify(input): keys whose value is undefined are left out
\* (content is a required string of RawInput)
JsonStringify(input) ==
    [k \in {f \in DOMAIN input : f = "content" \/ input[f] # Undefined} |-> input[k]]

\* the destructuring of useExecuteWorkflow's mutationFn: a parameter that is
\* left out (or passed as undefined) takes its default
ExecuteProvider(variables) ==
    IF "provider" \in DOMAIN variables /\ variables.provider # Undefined
    THEN variables.provider ELSE "google"

ExecuteTemperature(variables) ==
    IF "temperature" \in DOMAIN variables THEN variables.temperature
    ELSE DefaultTemperature

ExecuteModel(variables) ==
    IF "model" \in DOMAIN variables THEN variables.model ELSE Undefined

\* URLSearchParams.prototype.toString for names and values made of
\* characters the form encoding leaves as they are
RECURSIVE QueryString(_)
QueryString(params) ==
    IF params = <<>> THEN ""
    ELSE Head(params)[1] \o "=" \o Head(params)[2]
         \o (IF Len(params) > 1 THEN "&" ELSE "") \o QueryString(Tail(params))

\* mutant of ExecuteRequest: the temperature is written without its decimals
MutExecuteRequestWholeTemperature(variables) ==
    LET whole == (ExecuteTemperature(variables) \div 10) * 10
        params == << <<"provider", ExecuteProvider(variables)>>,
                     <<"temperature", TemperatureToString(whole)>> >>
        query == IF ExecuteModel(variables) \notin {Undefined, ""}
                 THEN Append(params, <<"model", ExecuteModel(variables)>>)
                 ELSE params
    IN  [ path   |-> "/api/v1/workflow/execute",
          query  |-> query,
          method |-> "POST",
          body   |-> JsonStringify(variables.input) ]

\* useExecuteWorkflow's mutationFn: the endpoint and options handed to
\* apiRequest
ExecuteRequest(variables) ==
    LET params == << <<"provider", ExecuteProvider(variables)>>,
                     <<"temperature", TemperatureToString(ExecuteTemperature(variables))>> >>
        query == IF ExecuteModel(variables) \notin {Undefined, ""}
                 THEN Append(params, <<"model", ExecuteModel(variables)>>)
                 ELSE params
    IN  [ path   |-> "/api/v1/workflow/execute",
          query  |-> query,
          method |-> "POST",
          body   |-> JsonStringify(variables.input) ]

\* the providers of a comparison, ['openai', 'anthropic'] when left out
CompareProviders(variables) ==
    IF "providers" \in DOMAIN variables THEN variables.providers
    ELSE <<"openai", "anthropic">>

\* mutant of CompareRequest: the entries are appended last provider first
MutCompareRequestReversed(variables) ==
    [ path   |-> "/api/v1/workflow/execute-parallel",
      query  |-> [i \in 1..Len(CompareProviders(variables)) |->
                    <<"providers",
                      CompareProviders(variables)[Len(CompareProviders(variables)) + 1 - i]>>],
      method |-> "POST",
      body   |-> JsonStringify(variables.input) ]

\* useCompareProviders' mutationFn: one 'providers' entry is appended per
\* provider, and the whole goes to apiRequest in one call
CompareRequest(variables) ==
    [ path   |-> "/api/v1/workflow/execute-parallel",
      query  |-> [i \in 1..Len(CompareProviders(variables)) |->
                    <<"providers", CompareProviders(variables)[i]>>],
      method |-> "POST",
      body   |-> JsonStringify(variables.input) ]

\* the endpoint string of a request
EndpointOf(request) == request.path \o "?" \o QueryString(request.query)

-----------------------------------------------------------------------------
(* components/workflow/steps/input-step.tsx *)

NoErrors == [content |-> ""]

\* mutant of InputSchemaParse: a content the wizard already holds makes up
\* for a short one in the form
MutInputSchemaParseHeld(values) ==
    IF Len(values.content) >= MinContentLength
       \/ Len(formData.input.content) >= MinContentLength
    THEN [success |-> TRUE, errors |-> [content |-> ""]]
    ELSE [success |-> FALSE, errors |-> [content |-> ContentTooShort]]

\* inputSchema.safeParse(values): only content carries a constraint
InputSchemaParse(values) ==
    IF Len(values.content) >= MinContentLength
    THEN [success |-> TRUE, errors |-> NoErrors]
    ELSE [success |-> FALSE, errors |-> [content |-> ContentTooShort]]

\* useForm({ defaultValues }) at mount
MountInputStep(data) ==
    [ values |-> [ content     |-> data.content,
                   source      |-> IF data.source \in {Undefined, ""} THEN "manual"
                                   ELSE data.source,
                   customer_id |-> IF data.customer_id \in {Undefined, ""} THEN ""
                                   ELSE data.customer_id ],
      errors |-> NoErrors,
      isSubmitted |-> FALSE ]

\* the local state of an InputStep that is not mounted
NoInputForm ==
    [ values |-> [content |-> <<>>, source |-> "", customer_id |-> ""],
      errors |-> NoErrors,
      isSubmitted |-> FALSE ]

\* onSubmit(values): the RawInput handed to onNext
InputStepOnSubmit(values) ==
    [ content     |-> values.content,
      source      |-> IF values.source = "" THEN "manual" ELSE values.source,
      customer_id |-> IF values.customer_id = "" THEN Undefined ELSE values.customer_id ]

-----------------------------------------------------------------------------
(* components/workflow/steps/config-step.tsx *)

\* useState(data.provider), useState(data.temperature) at mount
MountConfigStep(data) ==
    [provider |-> data.provider, temperature |-> data.temperature]

NoConfigForm == [provider |-> "", temperature |-> 0]

-----------------------------------------------------------------------------
(* components/workflow/steps/processing-step.tsx *)

Idle == [status |-> "idle"]
Pending == [status |-> "pending"]

isPending == mutation.status = "pending"
isError == mutation.status = "error"
isSuccess == mutation.status = "success"

\* mutant of CancelEnabled: the Cancel button is not disabled while pending
MutCancelEnabledWhilePending ==
    step = "processing"

\* mutant of CancelEnabled: only the error panel's Go Back button works
MutCancelEnabledOnlyOnError ==
    /\ step = "processing"
    /\ isError

\* <Button onClick={onCancel} disabled={executeMutation.isPending}> and the
\* "Go Back" button of the error panel
CancelEnabled ==
    /\ step = "processing"
    /\ (~isPending \/ isError)

Toast(type, message) == [type |-> type, message |-> message]

-----------------------------------------------------------------------------
(* State after construction *)

NoProbe == [set |-> FALSE]

NoToast == [type |-> "none", message |-> ""]

\* no apiRequest invocation outside the wizard
NoApiCall == [pc |-> "none"]

\* no page request being handled
NoNavigation == [pc |-> "none"]

Init ==
    /\ step = "input"
    /\ formData = InitialFormData
    /\ result = NoResult
    /\ inputForm = MountInputStep(InitialFormData.input)
    /\ configForm = NoConfigForm
    /\ mutation = Idle
    /\ calls = {}
    /\ toast = NoToast
    /\ lastEvent = "init"
    /\ probe = NoProbe
    /\ api = NoApiCall
    /\ nav = NoNavigation

-----------------------------------------------------------------------------
(* InputStep: editing and submitting *)

\* react-hook-form re-validates a changed field once the form was submitted
Revalidated(form) ==
    IF form.isSubmitted THEN [form EXCEPT !.errors = InputSchemaParse(form.values).errors]
    ELSE form

\* field.onChange of the content textarea
ChangeContent(c) ==
    /\ step = "input"
    /\ inputForm.values.content # c
    /\ inputForm' = Revalidated([inputForm EXCEPT !.values.content = c])
    /\ lastEvent' = "Change"
    /\ UNCHANGED <<step, formData, result, configForm, mutation, calls, toast, probe, api, nav>>

\* onValueChange of the source select
ChangeSource(s) ==
    /\ step = "input"
    /\ inputForm.values.source # s
    /\ inputForm' = Revalidated([inputForm EXCEPT !.values.source = s])
    /\ lastEvent' = "Change"
    /\ UNCHANGED <<step, formData, result, configForm, mutation, calls, toast, probe, api, nav>>

\* field.onChange of the customer id input
ChangeCustomerId(id) ==
    /\ step = "input"
    /\ inputForm.values.customer_id # id
    /\ inputForm' = Revalidated([inputForm EXCEPT !.values.customer_id = id])
    /\ lastEvent' = "Change"
    /\ UNCHANGED <<step, formData, result, configForm, mutation, calls, toast, probe, api, nav>>

\* the submission being made now may be kept as the probe, once
ProbeUpdate(content, parsed) ==
    \/ probe' = probe
    \/ /\ ~probe.set
       /\ probe' = [set |-> TRUE, content |-> content, accepted |-> parsed.success,
                    error |-> parsed.errors.content]

\* mutant of WizardOnInputNext: the configuration is put back to its defaults
MutWizardOnInputNextResetsConfig(input) ==
    /\ formData' = [InitialFormData EXCEPT !.input = input]
    /\ step' = "config"

\* WorkflowWizard: onNext of InputStep
WizardOnInputNext(input) ==
    /\ formData' = [formData EXCEPT !.input = input]
    /\ step' = "config"

\* mutant of SubmitInput: the values are stored in the wizard before they
\* are validated
MutSubmitInputStoresFirst ==
    /\ step = "input"
    /\ LET parsed == InputSchemaParse(inputForm.values)
       IN  /\ ProbeUpdate(inputForm.values.content, parsed)
           /\ formData' = [formData EXCEPT !.input = InputStepOnSubmit(inputForm.values)]
           /\ IF parsed.success
              THEN /\ step' = "config"
                   /\ inputForm' = NoInputForm
                   /\ configForm' = MountConfigStep(formData')
                   /\ lastEvent' = "SubmitAccepted"
              ELSE /\ inputForm' = [inputForm EXCEPT !.errors = parsed.errors,
                                                     !.isSubmitted = TRUE]
                   /\ lastEvent' = "SubmitRejected"
                   /\ UNCHANGED <<step, configForm>>
    /\ UNCHANGED <<result, mutation, calls, toast, api, nav>>

\* form.handleSubmit(onSubmit): validate, then either show the errors or call
\* onSubmit, whose onNext moves the wizard on (InputStep unmounts, ConfigStep
\* mounts)
SubmitInput ==
    /\ step = "input"
    /\ LET parsed == InputSchemaParse(inputForm.values)
       IN  /\ ProbeUpdate(inputForm.values.content, parsed)
           /\ IF parsed.success
              THEN /\ WizardOnInputNext(InputStepOnSubmit(inputForm.values))
                   /\ inputForm' = NoInputForm
                   /\ configForm' = MountConfigStep(formData')
                   /\ lastEvent' = "SubmitAccepted"
              ELSE /\ inputForm' = [inputForm EXCEPT !.errors = parsed.errors,
                                                     !.isSubmitted = TRUE]
                   /\ lastEvent' = "SubmitRejected"
                   /\ UNCHANGED <<step, formData, configForm>>
    /\ UNCHANGED <<result, mutation, calls, toast, api, nav>>

-----------------------------------------------------------------------------
(* ConfigStep: choosing, going back, generating *)

\* onValueChange of the provider radio group
SetProvider(p) ==
    /\ step = "config"
    /\ configForm.provider # p
    /\ configForm' = [configForm EXCEPT !.provider = p]
    /\ lastEvent' = "Set"
    /\ UNCHANGED <<step, formData, result, inputForm, mutation, calls, toast, probe, api, nav>>

\* onValueChange of the temperature slider
SetTemperature(t) ==
    /\ step = "config"
    /\ configForm.temperature # t
    /\ configForm' = [configForm EXCEPT !.temperature = t]
    /\ lastEvent' = "Set"
    /\ UNCHANGED <<step, formData, result, inputForm, mutation, calls, toast, probe, api, nav>>

\* mutant of WizardOnBack: going back clears the stored form data
MutWizardOnBackResets ==
    /\ step' = "input"
    /\ formData' = InitialFormData
    /\ UNCHANGED result

\* WorkflowWizard: onBack of ConfigStep; only setStep is called
WizardOnBack ==
    /\ step' = "input"
    /\ UNCHANGED <<formData, result>>

\* the Back button: ConfigStep unmounts, InputStep mounts on formData.input
Back ==
    /\ step = "config"
    /\ WizardOnBack
    /\ configForm' = NoConfigForm
    /\ inputForm' = MountInputStep(formData'.input)
    /\ lastEvent' = "Back"
    /\ UNCHANGED <<mutation, calls, toast, probe, api, nav>>

\* WorkflowWizard: onNext of ConfigStep; config holds provider and temperature
WizardOnConfigNext(config) ==
    /\ formData' = [formData EXCEPT !.provider = config.provider,
                                    !.temperature = config.temperature]
    /\ step' = "processing"

\* mutant of MountProcessingStep: the mount effect does not call mutate()
MutMountProcessingStepNoCall(data) ==
    /\ mutation' = Pending
    /\ calls' = calls

\* ProcessingStep: the mount effect calls executeMutation.mutate(...), whose
\* mutationFn runs apiRequest up to its first await. A call is mounted while
\* the ProcessingStep that made it is.
MountProcessingStep(data) ==
    /\ mutation' = Pending
    /\ calls' = calls \cup
            { [ mounted |-> TRUE,
                pc      |-> "getSession",
                request |-> ExecuteRequest([ input       |-> data.input,
                                             provider    |-> data.provider,
                                             model       |-> data.model,
                                             temperature |-> data.temperature ]) ] }

\* mutant of Generate: ProcessingStep executes against the data held before
\* the click
MutGenerateStaleData ==
    /\ step = "config"
    /\ WizardOnConfigNext([provider |-> configForm.provider,
                           temperature |-> configForm.temperature])
    /\ MountProcessingStep(formData)
    /\ configForm' = NoConfigForm
    /\ lastEvent' = "Generate"
    /\ UNCHANGED <<result, inputForm, toast, probe, api, nav>>

\* the Generate Workflow button: handleSubmit calls onNext, ConfigStep
\* unmounts and ProcessingStep mounts and starts the execution
Generate ==
    /\ step = "config"
    /\ WizardOnConfigNext([provider |-> configForm.provider,
                           temperature |-> configForm.temperature])
    /\ MountProcessingStep(formData')
    /\ configForm' = NoConfigForm
    /\ lastEvent' = "Generate"
    /\ UNCHANGED <<result, inputForm, toast, probe, api, nav>>

-----------------------------------------------------------------------------
(* ProcessingStep: settlement of the execution *)

\* mutant of WizardOnComplete: the result is stored and the step is left
MutWizardOnCompleteKeepsStep(workflowResult) ==
    /\ result' = workflowResult
    /\ UNCHANGED step

\* WorkflowWizard: onComplete of ProcessingStep
WizardOnComplete(workflowResult) ==
    /\ result' = workflowResult
    /\ step' = "results"

\* ProcessingStep unmounts: the callbacks given to mutate() no longer run
Unmounted(cs) ==
    { [c EXCEPT !.mounted = FALSE] : c \in cs }

\* mutant of ProcessingOnSuccess: a failed workflow is always reported with
\* the generic message
MutProcessingOnSuccessGeneric(c, data) ==
    IF data.success
    THEN /\ toast' = Toast("success", "Workflow completed successfully!")
         /\ WizardOnComplete(data)
         /\ mutation' = Idle
         /\ calls' = Unmounted(calls \ {c})
    ELSE /\ toast' = Toast("error", "Workflow failed")
         /\ mutation' = [status |-> "success", data |-> data]
         /\ calls' = calls \ {c}
         /\ UNCHANGED <<step, result>>

\* mutant of ProcessingOnSuccess: every resolved call completes the wizard
MutProcessingOnSuccessAlwaysCompletes(c, data) ==
    /\ toast' = Toast("success", "Workflow completed successfully!")
    /\ WizardOnComplete(data)
    /\ mutation' = Idle
    /\ calls' = Unmounted(calls \ {c})

\* the onSuccess callback given to mutate(); c is the call that resolved
ProcessingOnSuccess(c, data) ==
    IF data.success
    THEN /\ toast' = Toast("success", "Workflow completed successfully!")
         /\ WizardOnComplete(data)
         /\ mutation' = Idle
         /\ calls' = Unmounted(calls \ {c})
    ELSE /\ toast' = Toast("error", IF data.error \in {Null, ""} THEN "Workflow failed"
                                    ELSE data.error)
         /\ mutation' = [status |-> "success", data |-> data]
         /\ calls' = calls \ {c}
         /\ UNCHANGED <<step, result>>

\* mutant of ProcessingOnError: the failed request is issued again
MutProcessingOnErrorRetries(c, error) ==
    /\ toast' = Toast("error", IF error.message = "" THEN "Failed to execute workflow"
                               ELSE error.message)
    /\ mutation' = Pending
    /\ calls' = (calls \ {c}) \cup
            { [mounted |-> TRUE, pc |-> "getSession", request |-> c.request] }
    /\ UNCHANGED <<step, result>>

\* the onError callback given to mutate(); c is the call that rejected.
\* useExecuteWorkflow gives useMutation no retry option, so the mutation is
\* in error after the one failed attempt (failureCount 1).
ProcessingOnError(c, error) ==
    /\ toast' = Toast("error", IF error.message = "" THEN "Failed to execute workflow"
                               ELSE error.message)
    /\ mutation' = [status |-> "error", error |-> error, failureCount |-> 1]
    /\ calls' = calls \ {c}
    /\ UNCHANGED <<step, result>>

\* a settled apiRequest reaches the observer of the ProcessingStep that
\* called mutate(); the callbacks given to mutate() run only while that
\* component is still mounted
Deliver(c, outcome) ==
    IF c.mounted
    THEN IF outcome.settled = "resolved"
         THEN ProcessingOnSuccess(c, outcome.data)
         ELSE ProcessingOnError(c, outcome.error)
    ELSE /\ calls' = calls \ {c}
         /\ UNCHANGED <<step, result, mutation, toast>>

NoHeaders == [h \in {} |-> ""]

\* apiRequest: supabase.auth.getSession() settles; on a session (or none)
\* the headers are built and fetch() is called
SessionSettles(c, s) ==
    /\ c \in calls
    /\ c.pc = "getSession"
    /\ IF s.kind = "throws"
       THEN /\ Deliver(c, Rejected(ApiCatch(s)))
            /\ lastEvent' = "SessionFailed"
       ELSE /\ calls' = (calls \ {c}) \cup
                    { [ mounted |-> c.mounted,
                        pc      |-> "fetch",
                        request |-> c.request,
                        headers |-> ApiHeaders(NoHeaders, s) ] }
            /\ lastEvent' = "SessionResolved"
            /\ UNCHANGED <<step, result, mutation, toast>>
    /\ UNCHANGED <<formData, inputForm, configForm, probe, api, nav>>

\* apiRequest: fetch() settles, with a response or with a network failure
FetchSettles(c, f) ==
    /\ c \in calls
    /\ c.pc = "fetch"
    /\ Deliver(c, ApiSettle(f))
    /\ lastEvent' = IF f.kind = "rejects" THEN "FetchRejected" ELSE "FetchResponded"
    /\ UNCHANGED <<formData, inputForm, configForm, probe, api, nav>>

\* mutant of WizardOnCancel: cancelling starts over at Input
MutWizardOnCancelToInput ==
    /\ step' = "input"
    /\ UNCHANGED <<formData, result>>

\* WorkflowWizard: onCancel of ProcessingStep; only setStep is called
WizardOnCancel ==
    /\ step' = "config"
    /\ UNCHANGED <<formData, result>>

\* the Cancel Workflow / Go Back buttons: ProcessingStep unmounts, ConfigStep
\* mounts on formData
Cancel ==
    /\ CancelEnabled
    /\ WizardOnCancel
    /\ mutation' = Idle
    /\ calls' = Unmounted(calls)
    /\ configForm' = MountConfigStep(formData')
    /\ lastEvent' = "Cancel"
    /\ UNCHANGED <<inputForm, toast, probe, api, nav>>

-----------------------------------------------------------------------------
(* ResultsStep *)

\* mutant of WizardOnCreateNew: only the input part of the form data is reset
MutWizardOnCreateNewKeepsConfig ==
    /\ formData' = [formData EXCEPT !.input = [content |-> <<>>, source |-> "manual",
                                               customer_id |-> Undefined]]
    /\ result' = NoResult
    /\ step' = "input"

\* WorkflowWizard: onCreateNew of ResultsStep
WizardOnCreateNew ==
    /\ formData' = [ input       |-> [content |-> <<>>, source |-> "manual",
                                      customer_id |-> Undefined],
                     provider    |-> "google",
                     model       |-> Undefined,
                     temperature |-> 7 ]
    /\ result' = NoResult
    /\ step' = "input"

\* the Create New button: ResultsStep unmounts, InputStep mounts
CreateNew ==
    /\ step = "results"
    /\ result # NoResult
    /\ WizardOnCreateNew
    /\ inputForm' = MountInputStep(formData'.input)
    /\ lastEvent' = "CreateNew"
    /\ UNCHANGED <<configForm, mutation, calls, toast, probe, api, nav>>

-----------------------------------------------------------------------------
(* sonner *)

\* the toast leaves the screen when its duration has run out
ToastExpires ==
    /\ toast # NoToast
    /\ toast' = NoToast
    /\ UNCHANGED <<step, formData, result, inputForm, configForm, mutation,
                   calls, lastEvent, probe, api, nav>>

-----------------------------------------------------------------------------
(* The wizard session *)

\* what the remote side answers an execute call of the wizard with
WizardFetchOutcomes ==
    NetworkFailures
    \cup { ResponseOf(200, "OK", [kind |-> "result", value |-> r]) : r \in WorkflowResults }
    \cup { ResponseOf(429, "Too Many Requests",
                      [kind |-> "detail_string", detail |-> ProviderErrorText]) }

Next ==
    \/ \E c \in Contents : ChangeContent(c)
    \/ \E s \in Sources : ChangeSource(s)
    \/ \E id \in CustomerIds : ChangeCustomerId(id)
    \/ SubmitInput
    \/ \E p \in Providers : SetProvider(p)
    \/ \E t \in SliderValues : SetTemperature(t)
    \/ Back
    \/ Generate
    \/ \E c \in calls, s \in SessionOutcomes : SessionSettles(c, s)
    \/ \E c \in calls, f \in WizardFetchOutcomes : FetchSettles(c, f)
    \/ Cancel
    \/ CreateNew
    \/ ToastExpires

Spec == Init /\ [][Next]_vars

-----------------------------------------------------------------------------
(* The wizard session against a remote side that answers success: true *)

\* the session lookup does not throw
LiveSessionOutcomes == { s \in SessionOutcomes : s.kind # "throws" }

\* the remote side answers 200 with a WorkflowResult whose success is true
LiveFetchOutcomes ==
    { ResponseOf(200, "OK", [kind |-> "result", value |-> r]) :
        r \in { w \in WorkflowResults : w.success } }

\* the steps of the wizard when every execution is answered that way; the
\* error panel, and with it the enabled Cancel button, never comes up
NextLive ==
    \/ \E c \in Contents : ChangeContent(c)
    \/ \E s \in Sources : ChangeSource(s)
    \/ \E id \in CustomerIds : ChangeCustomerId(id)
    \/ SubmitInput
    \/ \E p \in Providers : SetProvider(p)
    \/ \E t \in SliderValues : SetTemperature(t)
    \/ Back
    \/ Generate
    \/ \E c \in calls, s \in LiveSessionOutcomes : SessionSettles(c, s)
    \/ \E c \in calls, f \in LiveFetchOutcomes : FetchSettles(c, f)
    \/ CreateNew
    \/ ToastExpires

\* a pending promise settles and the event loop runs its continuation: the
\* session lookup and the fetch of a call in flight are not postponed for
\* ever. The user's own actions carry no fairness.
SpecLive ==
    /\ Init
    /\ [][NextLive]_vars
    /\ WF_vars(\E c \in calls, s \in LiveSessionOutcomes : SessionSettles(c, s))
    /\ WF_vars(\E c \in calls, f \in LiveFetchOutcomes : FetchSettles(c, f))

-----------------------------------------------------------------------------
(* apiRequest called by the query hooks *)

\* the endpoints the query hooks build (useExecuteWorkflow,
\* useCompareProviders, useWorkflowHistory, useWorkflowById)
ApiEndpoints ==
    [ execute  |-> { "/api/v1/workflow/execute?provider=google&temperature=0.7",
                     "/api/v1/workflow/execute?provider=openai&temperature=0" },
      parallel |-> { "/api/v1/workflow/execute-parallel?providers=openai&providers=anthropic" },
      query    |-> { "/api/v1/workflows?page=1&limit=20",
                     "/api/v1/workflow/run-1" } ]

\* the RequestInit the hooks pass: a POST for the mutations, nothing for the
\* queries (options = {}); no hook passes headers of its own
ApiOptions ==
    [ execute  |-> [method |-> "POST", headers |-> NoHeaders],
      parallel |-> [method |-> "POST", headers |-> NoHeaders],
      query    |-> [method |-> Undefined, headers |-> NoHeaders] ]

\* apiRequest(endpoint, options) has been called and awaits getSession()
InitApi ==
    /\ step = "input"
    /\ formData = InitialFormData
    /\ result = NoResult
    /\ inputForm = MountInputStep(InitialFormData.input)
    /\ configForm = NoConfigForm
    /\ mutation = Idle
    /\ calls = {}
    /\ toast = NoToast
    /\ lastEvent = "init"
    /\ probe = NoProbe
    /\ \E hook \in DOMAIN ApiEndpoints : \E e \in ApiEndpoints[hook] :
            api = [pc |-> "getSession", endpoint |-> e, options |-> ApiOptions[hook]]
    /\ nav = NoNavigation

\* supabase.auth.getSession() settles: on a throw the catch block settles the
\* call, otherwise the headers are built and fetch() is called
ApiSessionSettles(s) ==
    /\ api.pc = "getSession"
    /\ api' = IF s.kind = "throws"
              THEN [ pc |-> "done", endpoint |-> api.endpoint, options |-> api.options,
                     session |-> s, responded |-> FALSE,
                     outcome |-> Rejected(ApiCatch(s)) ]
              ELSE [ pc |-> "fetch", endpoint |-> api.endpoint, options |-> api.options,
                     session |-> s,
                     sent |-> [ url     |-> api.endpoint,
                                method  |-> api.options.method,
                                headers |-> ApiHeaders(api.options.headers, s),
                                wire    |-> FetchHeaders(ApiHeaders(api.options.headers, s)) ] ]
    /\ UNCHANGED <<step, formData, result, inputForm, configForm, mutation,
                   calls, toast, lastEvent, probe, nav>>

\* fetch() settles and with it the call
ApiFetchSettles(f) ==
    /\ api.pc = "fetch"
    /\ api' = [ pc |-> "done", endpoint |-> api.endpoint, options |-> api.options,
                session |-> api.session, sent |-> api.sent,
                responded |-> (f.kind = "response"), fetched |-> f,
                outcome |-> ApiSettle(f) ]
    /\ UNCHANGED <<step, formData, result, inputForm, configForm, mutation,
                   calls, toast, lastEvent, probe, nav>>

NextApi ==
    \/ \E s \in SessionOutcomes : ApiSessionSettles(s)
    \/ \E f \in NetworkFailures \cup Responses : ApiFetchSettles(f)

SpecApi == InitApi /\ [][NextApi]_vars

-----------------------------------------------------------------------------
(* apiRequest called with headers in its options *)

\* the headers a caller of apiRequest can pass in options.headers
CallerHeaders ==
    { NoHeaders,
      [h \in {"Authorization"} |-> "Bearer forged"],
      [h \in {"authorization"} |-> "Bearer forged"],
      [h \in {"X-Request-Id"} |-> "req-1"],
      [h \in {"content-type"} |-> "text/plain"] }

\* apiRequest(endpoint, { method, headers }) has been called and awaits
\* getSession()
InitCaller ==
    /\ step = "input"
    /\ formData = InitialFormData
    /\ result = NoResult
    /\ inputForm = MountInputStep(InitialFormData.input)
    /\ configForm = NoConfigForm
    /\ mutation = Idle
    /\ calls = {}
    /\ toast = NoToast
    /\ lastEvent = "Init"
    /\ probe = NoProbe
    /\ nav = NoNavigation
    /\ \E headers \in CallerHeaders :
            api = [ pc |-> "getSession",
                    endpoint |-> "/api/v1/workflow/execute?provider=google&temperature=0.7",
                    options |-> [method |-> "POST", headers |-> headers] ]

SpecCaller == InitCaller /\ [][NextApi]_vars

-----------------------------------------------------------------------------
(* useExecuteWorkflow and useCompareProviders: one mutate() *)

\* the inputs handed to the hooks
RawInputs ==
    { [content |-> Repeat("x", MinContentLength), source |-> "manual",
       customer_id |-> Undefined],
      [content |-> Repeat("x", MinContentLength), source |-> "crm",
       customer_id |-> "CUST-12345"] }

\* the model overrides a caller can pass
Models == {"", "gpt-4o-mini"}

\* the temperatures a caller can pass: the slider's values and one above its
\* maximum
HookTemperatures == SliderValues \cup {SliderMax + 5}

\* the providers a caller can pass: the three of the type and, since the
\* type is erased at run time, one outside it
HookProviders == Providers \cup {"mistral"}

Restrict(record, keys) == [k \in keys |-> record[k]]

\* the variables of useExecuteWorkflow().mutate: input is required, each of
\* provider, model and temperature may be left out
ExecuteVariables ==
    { Restrict(full, {"input"} \cup optional) :
        full \in [input : RawInputs, provider : HookProviders, model : Models,
                  temperature : HookTemperatures],
        optional \in SUBSET {"provider", "model", "temperature"} }

\* the variables of useCompareProviders().mutate: providers may be left out
CompareVariables ==
    { Restrict(full, {"input"} \cup optional) :
        full \in [input : RawInputs,
                  providers : { <<"openai", "anthropic">>, <<"anthropic", "openai">>,
                                <<"google">>, <<"google", "openai", "anthropic">>,
                                <<"openai", "openai">> }],
        optional \in SUBSET {"providers"} }

\* mutate(variables) has been called on one of the two hooks
InitHooks ==
    /\ step = "input"
    /\ formData = InitialFormData
    /\ result = NoResult
    /\ inputForm = MountInputStep(InitialFormData.input)
    /\ configForm = NoConfigForm
    /\ mutation = Idle
    /\ calls = {}
    /\ toast = NoToast
    /\ lastEvent = "Init"
    /\ probe = NoProbe
    /\ nav = NoNavigation
    /\ \/ \E v \in ExecuteVariables :
            api = [pc |-> "mutate", hook |-> "execute", variables |-> v, sent |-> <<>>]
       \/ \E v \in CompareVariables :
            api = [pc |-> "mutate", hook |-> "compare", variables |-> v, sent |-> <<>>]

\* the request a hook's mutationFn builds from its variables
HookRequest(hook, variables) ==
    IF hook = "execute" THEN ExecuteRequest(variables) ELSE CompareRequest(variables)

\* mutationFn runs up to its call of apiRequest, which awaits getSession()
HookMutate ==
    /\ api.pc = "mutate"
    /\ api' = [ pc |-> "getSession", hook |-> api.hook, variables |-> api.variables,
                request |-> HookRequest(api.hook, api.variables), sent |-> api.sent ]
    /\ UNCHANGED <<wizardVars, nav>>

\* getSession() settles: on a throw the call ends in the catch block with
\* nothing sent, otherwise fetch() is called once with the request
HookSessionSettles(s) ==
    /\ api.pc = "getSession"
    /\ api' = IF s.kind = "throws"
              THEN [ pc |-> "done", hook |-> api.hook, variables |-> api.variables,
                     request |-> api.request, session |-> s, sent |-> api.sent,
                     outcome |-> Rejected(ApiCatch(s)) ]
              ELSE [ pc |-> "fetch", hook |-> api.hook, variables |-> api.variables,
                     request |-> api.request, session |-> s,
                     sent |-> Append(api.sent,
                                [ url     |-> EndpointOf(api.request),
                                  path    |-> api.request.path,
                                  query   |-> api.request.query,
                                  method  |-> api.request.method,
                                  body    |-> api.request.body,
                                  headers |-> ApiHeaders(NoHeaders, s) ]) ]
    /\ UNCHANGED <<wizardVars, nav>>

\* fetch() settles and with it apiRequest and the mutation; the hooks pass
\* no retry option
HookFetchSettles(f) ==
    /\ api.pc = "fetch"
    /\ api' = [ pc |-> "done", hook |-> api.hook, variables |-> api.variables,
                request |-> api.request, session |-> api.session, sent |-> api.sent,
                fetched |-> f, outcome |-> ApiSettle(f) ]
    /\ UNCHANGED <<wizardVars, nav>>

NextHooks ==
    \/ HookMutate
    \/ \E s \in SessionOutcomes : HookSessionSettles(s)
    \/ \E f \in NetworkFailures \cup Responses : HookFetchSettles(f)

SpecHooks == InitHooks /\ [][NextHooks]_vars

-----------------------------------------------------------------------------
(* middleware.ts: route protection *)

\* the prefixes the middleware tests the pathname against
ProtectedPrefixes == {"/dashboard", "/workflow", "/history", "/analytics", "/settings"}

\* config.matcher: the exact patterns and the bases of the ':path*' patterns
MatcherExact == {"/", "/login"}
MatcherSubtrees == {"/dashboard", "/workflow", "/history", "/analytics", "/settings"}

\* what can follow a prefix in the pathnames requested below
PathTails ==
    { "", "s", "-old", "/new", "/stats", "/run-1", "/profile", "/reset",
      "new", "stats", "run-1", "profile", "reset" }

\* String.prototype.startsWith
StartsWith(str, prefix) == \E tail \in PathTails : str = prefix \o tail

\* the pathnames requested
Pathnames ==
    { "/", "/login", "/login/reset", "/about", "/api/health",
      "/dashboard", "/dashboard/stats", "/dashboards",
      "/workflow", "/workflow/new", "/workflows",
      "/history", "/history/run-1", "/history-old",
      "/analytics", "/analytics/stats", "/analytics-old",
      "/settings", "/settings/profile", "/settings-old" }

\* whether the framework runs the middleware for a pathname: '/base/:path*'
\* matches the base and everything below it, and nothing beside it
MatcherMatches(pathname) ==
    \/ pathname \in MatcherExact
    \/ \E base \in MatcherSubtrees :
          pathname = base \/ StartsWith(pathname, base \o "/")

\* what supabase.auth.getSession() can settle to for the cookies a request
\* carries, with the cookie writes it makes through the adapter on the way
NavSessionOutcomes ==
    { [kind |-> "session", cookies |-> <<>>],
      [kind |-> "session", cookies |-> << [op |-> "set", name |-> "sb-access-token"] >>],
      [kind |-> "no_session", cookies |-> <<>>],
      [kind |-> "no_session", cookies |-> << [op |-> "remove", name |-> "sb-access-token"] >>],
      [kind |-> "throws", cookies |-> <<>>] }

\* NextResponse.next(), with the cookie writes made on it
NextResponse(cookies) == [kind |-> "next", location |-> Undefined, cookies |-> cookies]

\* NextResponse.redirect(new URL(location, request.url)): a fresh response
Redirect(location) == [kind |-> "redirect", location |-> location, cookies |-> <<>>]

\* mutant of Middleware: without a session every matched path is sent to
\* /login
MutMiddlewareLoginForAll(pathname, session) ==
    IF session.kind = "no_session"
    THEN Redirect("/login")
    ELSE IF session.kind = "session" /\ pathname = "/login"
    THEN Redirect("/dashboard")
    ELSE IF pathname = "/"
    THEN IF session.kind = "session" THEN Redirect("/dashboard") ELSE Redirect("/login")
    ELSE NextResponse(session.cookies)

\* the body of middleware() once the session is known
Middleware(pathname, session) ==
    IF /\ session.kind = "no_session"
       /\ \E prefix \in ProtectedPrefixes : StartsWith(pathname, prefix)
    THEN Redirect("/login")
    ELSE IF session.kind = "session" /\ pathname = "/login"
    THEN Redirect("/dashboard")
    ELSE IF pathname = "/"
    THEN IF session.kind = "session" THEN Redirect("/dashboard") ELSE Redirect("/login")
    ELSE NextResponse(session.cookies)

InitMiddleware ==
    /\ step = "input"
    /\ formData = InitialFormData
    /\ result = NoResult
    /\ inputForm = MountInputStep(InitialFormData.input)
    /\ configForm = NoConfigForm
    /\ mutation = Idle
    /\ calls = {}
    /\ toast = NoToast
    /\ lastEvent = "Init"
    /\ probe = NoProbe
    /\ api = NoApiCall
    /\ \E pathname \in Pathnames : \E auth \in NavSessionOutcomes :
            nav = [pc |-> "request", pathname |-> pathname, auth |-> auth, hops |-> 0]

\* the framework decides from config.matcher whether middleware() runs; when
\* it does not, the request goes on to the router untouched
NavRoute ==
    /\ nav.pc = "request"
    /\ nav' = IF MatcherMatches(nav.pathname)
              THEN [nav EXCEPT !.pc = "getSession"]
              ELSE [pc |-> "done", pathname |-> nav.pathname, auth |-> nav.auth,
                    hops |-> nav.hops, ran |-> FALSE, response |-> NextResponse(<<>>)]
    /\ UNCHANGED <<wizardVars, api>>

\* await supabase.auth.getSession() settles and middleware() runs to its end
NavSessionSettles ==
    /\ nav.pc = "getSession"
    /\ nav' = IF nav.auth.kind = "throws"
              THEN [pc |-> "failed", pathname |-> nav.pathname, auth |-> nav.auth,
                    hops |-> nav.hops, ran |-> TRUE]
              ELSE [pc |-> "done", pathname |-> nav.pathname, auth |-> nav.auth,
                    hops |-> nav.hops, ran |-> TRUE,
                    response |-> Middleware(nav.pathname, nav.auth)]
    /\ UNCHANGED <<wizardVars, api>>

\* the browser follows a redirect: it requests the location with the cookies
\* it had (a redirect response is a fresh one and carries no cookie writes)
NavFollowRedirect ==
    /\ nav.pc = "done"
    /\ nav.response.kind = "redirect"
    /\ nav.hops < MaxHops
    /\ nav' = [pc |-> "request", pathname |-> nav.response.location, auth |-> nav.auth,
               hops |-> nav.hops + 1]
    /\ UNCHANGED <<wizardVars, api>>

NextMiddleware ==
    \/ NavRoute
    \/ NavSessionSettles
    \/ NavFollowRedirect

SpecMiddleware == InitMiddleware /\ [][NextMiddleware]_vars

-----------------------------------------------------------------------------
(* Properties of the wizard *)

Whitespace == {" "}

\* String.prototype.trim on a content string
RECURSIVE TrimStart(_)
TrimStart(str) ==
    IF Len(str) > 0 /\ Head(str) \in Whitespace THEN TrimStart(Tail(str)) ELSE str

RECURSIVE TrimEnd(_)
TrimEnd(str) ==
    IF Len(str) > 0 /\ str[Len(str)] \in Whitespace
    THEN TrimEnd(SubSeq(str, 1, Len(str) - 1))
    ELSE str

Trim(str) == TrimEnd(TrimStart(str))

AllowedStepChanges ==
    { <<"input", "config">>, <<"config", "input">>, <<"config", "processing">>,
      <<"processing", "results">>, <<"processing", "config">>, <<"results", "input">> }

\* C1: the step changes only along input->config, config->input,
\* config->processing, processing->results, processing->config and
\* results->input; no other step change ever occurs.
C1_StepChanges ==
    [][step' # step => <<step, step'>> \in AllowedStepChanges]_vars

\* a full round has been made: Results was reached and left by create-new
C1_Witness ==
    lastEvent = "CreateNew" /\ step = "input"

\* C2: at most one execute call is issued and not yet settled at any time.
C2_OneInFlight ==
    Cardinality(calls) <= 1

\* a call is in flight while the toast of an earlier execution is still shown
C2_Witness ==
    /\ Cardinality(calls) = 1
    /\ toast.type = "error"
    /\ isPending

\* C3: whenever the wizard is in Processing with the execute call pending,
\* the cancel action can be taken (and it leads to Configure at once).
C3_CancelWhilePending ==
    (step = "processing" /\ isPending) => ENABLED (Cancel /\ step' = "config")

\* C5: every settled outcome leaves the wizard in Results or with a failure
\* display that stays on screen; a settled execution is never left with
\* nothing on screen about it.
C5_OutcomeNotDropped ==
    (step = "processing" /\ (isSuccess \/ isError))
        => (isError \/ toast.type = "error")

\* C6: after create-new the wizard is in Input, the form data is the initial
\* defaults (content empty, source manual, provider google, temperature 0.7,
\* no model, no customer id) and the result is null.
C6_CreateNewResets ==
    lastEvent = "CreateNew" =>
        /\ step = "input"
        /\ formData = InitialFormData
        /\ formData.input.content = <<>>
        /\ formData.input.source = "manual"
        /\ formData.input.customer_id = Undefined
        /\ formData.provider = "google"
        /\ formData.temperature = 7
        /\ formData.model = Undefined
        /\ result = NoResult

\* create-new has been taken, the toast of the run before it still showing
C6_Witness ==
    lastEvent = "CreateNew" /\ toast.type = "success"

\* C7: a content whose trimmed length is below 10 is never accepted by the
\* Input step, and no execute call carries such a content in its body.
C7_TrimmedShortRejected ==
    /\ lastEvent = "SubmitAccepted"
            => Len(Trim(formData.input.content)) >= MinContentLength
    /\ \A c \in calls : Len(Trim(c.request.body.content)) >= MinContentLength

C9_RejectedChangesNothing ==
    [][lastEvent' = "SubmitRejected" =>
            /\ step = "input" /\ step' = "input"
            /\ formData' = formData
            /\ result' = result
            /\ calls' = calls]_vars

\* a submission is rejected while the wizard holds an accepted input
C9_Witness ==
    /\ lastEvent = "SubmitRejected"
    /\ step = "input"
    /\ inputForm.errors.content = ContentTooShort
    /\ Len(formData.input.content) >= MinContentLength

-----------------------------------------------------------------------------
(* Properties of apiRequest *)

IsStatusZeroError(outcome) ==
    /\ outcome.settled = "rejected"
    /\ outcome.error.name = "APIRequestError"
    /\ outcome.error.statusCode = 0

\* C10: a call that received no HTTP response fails with an APIRequestError
\* of statusCode 0, and a call that received a response never does.
C10_StatusZeroIffNoResponse ==
    api.pc = "done" => (IsStatusZeroError(api.outcome) <=> ~api.responded)

\* fetch() rejected and the call failed with statusCode 0
C10_Witness ==
    /\ api.pc = "done"
    /\ "fetched" \in DOMAIN api
    /\ api.fetched.kind = "rejects"
    /\ IsStatusZeroError(api.outcome)

\* the call ended on a response with a non-success status
FailedOnStatus ==
    /\ api.pc = "done"
    /\ api.responded
    /\ ~api.fetched.ok

\* the error of such a call carries the status and the given message
StatusErrorIs(message) ==
    /\ api.outcome.settled = "rejected"
    /\ api.outcome.error.name = "APIRequestError"
    /\ api.outcome.error.statusCode = api.fetched.status
    /\ api.outcome.error.message = message

C12_DecodeErrorKeepsStatus ==
    (api.pc = "done" /\ api.responded /\ api.fetched.ok
        /\ api.fetched.body.kind = "not_json")
    => /\ api.outcome.settled = "rejected"
       /\ api.outcome.error.name = "APIRequestError"
       /\ api.outcome.error.statusCode = api.fetched.status

\* something went wrong in the call: the session lookup threw, fetch
\* rejected, the status was not a success, or the body could not be decoded
ApiCallFailed ==
    /\ api.pc = "done"
    /\ \/ api.session.kind = "throws"
       \/ ~api.responded
       \/ ~api.fetched.ok
       \/ api.fetched.body.kind = "not_json"

\* C13: every failed call rejects with an APIRequestError; it never resolves
\* and never rejects with an error of another type.
C13_FailuresNormalised ==
    ApiCallFailed =>
        /\ api.outcome.settled = "rejected"
        /\ api.outcome.error.name = "APIRequestError"

-----------------------------------------------------------------------------
(* Properties of the execution's outcome *)

\* the execution has ended in error on a transport failure: fetch rejected
\* and the error carries statusCode 0
EndedOnTransportError ==
    /\ step = "processing"
    /\ lastEvent = "FetchRejected"
    /\ isError
    /\ mutation.error.statusCode = 0

\* C15: an execution ends in its terminal failure state on a transport error
\* only after the first attempt and exactly 3 automatic retries have failed.
C15_ThreeRetries ==
    EndedOnTransportError => mutation.failureCount = 3 + 1

\* C16: an execute request is issued only by the user's Generate action;
\* after a non-success status or a success:false response none is issued
\* automatically.
C16_NoAutomaticRetry ==
    [][(\E c \in calls' : c.pc = "getSession" /\ c \notin calls)
            => lastEvent' = "Generate"]_vars

\* the user has generated again while the message of a failed run, taken
\* from the server, is still shown
C16_Witness ==
    /\ lastEvent = "Generate"
    /\ toast = Toast("error", ProviderErrorText)
    /\ Cardinality(calls) = 1

\* C17: the wizard is in Results, showing the success view, only for a
\* response with success true and self_check.approved true.
C17_SuccessOnlyIfApproved ==
    step = "results" => (result.success /\ result.self_check.approved)

\* the execution has settled with a response that has success:false
SettledUnsuccessful ==
    /\ step = "processing"
    /\ isSuccess
    /\ ~mutation.data.success

\* C18: for success:false with approved:false, a rejection reason and no
\* error, the message shown is exactly the rejection reason.
C18_RejectionReasonShown ==
    (SettledUnsuccessful
        /\ ~mutation.data.self_check.approved
        /\ mutation.data.self_check.rejection_reason # Null
        /\ mutation.data.error = Null
        /\ toast # NoToast)
    => toast.message = mutation.data.self_check.rejection_reason

-----------------------------------------------------------------------------
(* Properties of the held form data and result *)

\* C27: going back from Configure and cancelling from Processing leave the
\* held form data and the held result as they were, and a step that puts the
\* form data back to its initial value or the result back to null is the
\* Create New step out of Results.
C27_OnlyCreateNewResets ==
    [][ /\ (step = "config" /\ step' = "input") =>
              (formData' = formData /\ result' = result)
        /\ (step = "processing" /\ step' = "config") =>
              (formData' = formData /\ result' = result)
        /\ ((formData' = InitialFormData /\ formData # InitialFormData)
             \/ (result' = NoResult /\ result # NoResult)) =>
              (step = "results" /\ step' = "input")
      ]_vars

\* the wizard went back from Configure with an input and a configuration
\* other than the initial ones still held
C27_Witness ==
    /\ lastEvent = "Back"
    /\ step = "input"
    /\ formData.input.content # <<>>
    /\ formData.provider # InitialFormData.provider
    /\ formData.temperature # InitialFormData.temperature

\* C28: the step from Input to Configure replaces the input part of the form
\* data with the submitted input and leaves provider, model and temperature
\* as they were; the step from Configure to Processing replaces provider and
\* temperature with the chosen ones and leaves input and model as they were.
C28_ForwardFrames ==
    [][ /\ (step = "input" /\ step' = "config") =>
              /\ formData'.input = InputStepOnSubmit(inputForm.values)
              /\ formData'.provider = formData.provider
              /\ formData'.model = formData.model
              /\ formData'.temperature = formData.temperature
        /\ (step = "config" /\ step' = "processing") =>
              /\ formData'.provider = configForm.provider
              /\ formData'.temperature = configForm.temperature
              /\ formData'.input = formData.input
              /\ formData'.model = formData.model
      ]_vars

\* an input was submitted again while a provider and a temperature other
\* than the defaults were held, and they are still held on Configure
C28_Witness ==
    /\ lastEvent = "SubmitAccepted"
    /\ step = "config"
    /\ formData.input.customer_id = "CUST-12345"
    /\ formData.provider = "openai"
    /\ formData.temperature = SliderMin
    /\ configForm.provider = "openai"

\* C29: the wizard holds a result exactly when it is on the Results step,
\* and a held result is one whose success field is true.
C29_ResultIffResults ==
    /\ (result # NoResult) <=> (step = "results")
    /\ (result # NoResult) => (result.success = TRUE)

\* the wizard is on Results with the response of an execution that ran with
\* a provider other than the default
C29_Witness ==
    /\ step = "results"
    /\ result # NoResult
    /\ result.success
    /\ lastEvent = "FetchResponded"
    /\ formData.provider = "anthropic"

\* C30: while an execute request is pending the wizard is on Processing, the
\* ProcessingStep that issued the request is the one mounted, and none of the
\* user's step-changing actions (submit, back, generate, cancel, create new)
\* is enabled; so every response and every failure is delivered during the
\* Processing visit that issued the request.
C30_PendingPinsProcessing ==
    calls # {} =>
        /\ step = "processing"
        /\ isPending
        /\ \A c \in calls : c.mounted
        /\ ~ENABLED SubmitInput
        /\ ~ENABLED Back
        /\ ~ENABLED Generate
        /\ ~ENABLED Cancel
        /\ ~ENABLED CreateNew

\* a request has been sent and its response is awaited
C30_Witness ==
    /\ step = "processing"
    /\ isPending
    /\ \E c \in calls : c.pc = "fetch" /\ c.mounted

\* C26: once the wizard has gone from Input (content of ten characters or
\* more) through Configure into Processing, and the remote side answers the
\* execution with success: true, the wizard reaches Results, and the result
\* it holds on arriving there is the response that was delivered.
C26_SuccessReachesResults ==
    /\ (step = "processing" /\ Len(formData.input.content) >= MinContentLength)
          ~> (step = "results" /\ result # NoResult /\ result.success)
    /\ [][ (step = "processing" /\ step' = "results") =>
              \E c \in calls, f \in LiveFetchOutcomes :
                  /\ FetchSettles(c, f)
                  /\ result' = f.body.value ]_vars

\* the wizard has arrived on Results with a response whose self-check did not
\* approve
C26_Witness ==
    /\ step = "results"
    /\ lastEvent = "FetchResponded"
    /\ result # NoResult
    /\ result.success
    /\ ~result.self_check.approved

-----------------------------------------------------------------------------
(* Properties of the execution's request *)

\* the request useExecuteWorkflow builds from the wizard's held data
RequestOf(data) ==
    ExecuteRequest([ input |-> data.input, provider |-> data.provider,
                     model |-> data.model, temperature |-> data.temperature ])

\* C23: the step that enters Processing issues one execute request, built
\* from the input and config the wizard holds on entry (the stored input and
\* the provider and temperature just chosen), and no step ever changes the
\* request of a call that is in flight.
C23_SnapshotExecuted ==
    [][ /\ (step = "config" /\ step' = "processing") =>
              /\ formData'.input = formData.input
              /\ formData'.provider = configForm.provider
              /\ formData'.temperature = configForm.temperature
              /\ \E c \in calls' :
                    /\ calls' = calls \cup {c}
                    /\ c \notin calls
                    /\ c.request = RequestOf(formData')
        /\ (step' = "processing" /\ calls' # {}) =>
              \A c \in calls' : c.request = RequestOf(formData')
        /\ ~(step = "config" /\ step' = "processing") =>
              { c.request : c \in calls' } \subseteq { c.request : c \in calls }
      ]_vars

\* an execution is in flight for a provider and a temperature that were
\* changed on the Configure step
C23_Witness ==
    /\ step = "processing"
    /\ \E c \in calls :
          /\ c.pc = "fetch"
          /\ c.request.query = << <<"provider", "anthropic">>, <<"temperature", "2">> >>
          /\ c.request.body.content = formData.input.content
    /\ formData.provider = "anthropic"
    /\ formData.temperature = SliderMax

\* the execute calls that a step issues
IssuedCalls == { c \in calls' : c.pc = "getSession" /\ c \notin calls }

\* the execute calls that a step sends to the network
SentCalls == { c \in calls' : c.pc = "fetch" /\ c \notin calls }

\* C31: a step that enters Processing issues exactly one execute call and no
\* other step issues any, so the executions of a run are as many as its
\* entries into Processing; a call goes to the network at most once, after
\* its own session lookup.
C31_OneRequestPerEntry ==
    [][ /\ (step # "processing" /\ step' = "processing") =>
              Cardinality(IssuedCalls) = 1
        /\ ~(step # "processing" /\ step' = "processing") =>
              IssuedCalls = {}
        /\ \A c \in SentCalls :
              /\ SentCalls = {c}
              /\ \E b \in calls : /\ b.pc = "getSession"
                                  /\ b.request = c.request
                                  /\ b \notin calls'
      ]_vars

\* Processing has been entered again after a failed execution, and the one
\* call of the new visit is the only one there is
C31_Witness ==
    /\ step = "processing"
    /\ lastEvent = "Generate"
    /\ toast.type = "error"
    /\ Cardinality(calls) = 1
    /\ \A c \in calls : c.pc = "getSession" /\ c.mounted

\* the execution of this Processing visit has settled without success: the
\* call threw, or it resolved to a response with success:false
ExecutionFailed ==
    /\ step = "processing"
    /\ (isError \/ (isSuccess /\ ~mutation.data.success))

\* C32: the step that delivers a failed execution (a thrown error or a
\* response with success:false) leaves the wizard in Processing with the form
\* data as it was and the result null; in the state it leads to the action
\* back to Configure is enabled, and so is some action in every state whose
\* execution has settled (Processing without a pending call, or Results).
C32_FailureRecoverable ==
    /\ [][ (isPending /\ mutation'.status \in {"error", "success"}) =>
              /\ step' = "processing"
              /\ formData' = formData
              /\ result' = NoResult ]_vars
    /\ [](ExecutionFailed =>
              /\ result = NoResult
              /\ ENABLED (Cancel /\ step' = "config" /\ formData' = formData))
    /\ []((step = "processing" /\ ~isPending) => ENABLED Cancel)
    /\ [](step = "results" => ENABLED CreateNew)

\* an execution has resolved to a response with success:false and the wizard
\* waits in Processing with nothing pending
C32_Witness ==
    /\ ExecutionFailed
    /\ isSuccess
    /\ calls = {}
    /\ lastEvent = "FetchResponded"
    /\ formData.input.content # <<>>

-----------------------------------------------------------------------------
(* Properties of the query hooks *)

\* the call has got past the session lookup
HookReachedFetch == api.pc \in {"fetch", "done"} /\ api.session.kind # "throws"

QueryValues(query, name) ==
    { query[i][2] : i \in { j \in 1..Len(query) : query[j][1] = name } }

\* the temperatures (in tenths) whose decimal form is str
TemperaturesWritten(str) ==
    { t \in 0..(SliderMax + 9) : TemperatureToString(t) = str }

\* a field of a decoded JSON body: a key that is not there reads undefined
BodyField(body, key) == IF key \in DOMAIN body THEN body[key] ELSE Undefined

\* the request r carries the variables v: provider and temperature decode to
\* the values in force, model is there exactly when modelExpected, and every
\* field of the body reads as the field of the input
ExecuteDecodes(r, v, modelExpected) ==
    /\ r.path = "/api/v1/workflow/execute"
    /\ r.method = "POST"
    /\ r.url = r.path \o "?" \o QueryString(r.query)
    /\ { r.query[i][1] : i \in 1..Len(r.query) } \subseteq {"provider", "temperature", "model"}
    /\ Len(r.query) = IF modelExpected THEN 3 ELSE 2
    /\ QueryValues(r.query, "provider") = {ExecuteProvider(v)}
    /\ \A str \in QueryValues(r.query, "temperature") :
          TemperaturesWritten(str) = {ExecuteTemperature(v)}
    /\ QueryValues(r.query, "temperature") # {}
    /\ QueryValues(r.query, "model") = IF modelExpected THEN {ExecuteModel(v)} ELSE {}
    /\ \A key \in {"content", "source", "customer_id"} :
          BodyField(r.body, key) = v.input[key]

C24_OnlyValidSent ==
    (api.pc # "none" /\ api.hook = "execute") =>
        \/ api.sent = <<>>
        \/ /\ ExecuteProvider(api.variables) \in Providers
           /\ ExecuteTemperature(api.variables) \in SliderMin..SliderMax

-----------------------------------------------------------------------------
(* Properties of the middleware *)

\* a request that carries no session and asks for a pathname that starts
\* with one of the protected prefixes
UnauthenticatedProtected ==
    /\ nav.pc # "none"
    /\ nav.auth.kind = "no_session"
    /\ \E prefix \in ProtectedPrefixes : StartsWith(nav.pathname, prefix)

\* C25: a request without a session for any path starting with /dashboard,
\* /workflow, /history, /analytics or /settings is never passed through to
\* the page: once handled, its response is a redirect to /login.
C25_UnauthenticatedRedirected ==
    (UnauthenticatedProtected /\ nav.pc = "done")
        => (nav.response.kind = "redirect" /\ nav.response.location = "/login")

\* C33: a redirect of the middleware is followed by no further redirect: the
\* request for its target, made with the same session status, is one the
\* middleware runs for and passes through. With a session /login and / are
\* redirected to /dashboard, without a session / is redirected to /login.
C33_RedirectOnce ==
    nav.pc # "none" =>
        /\ nav.hops <= 1
        /\ (nav.pc = "done" /\ nav.hops = 1) =>
              (nav.ran /\ nav.response.kind = "next")
        /\ nav.pc = "failed" => nav.hops = 0
        /\ (nav.pc = "done" /\ nav.hops = 0 /\ nav.auth.kind = "session"
                /\ nav.pathname \in {"/login", "/"}) =>
              nav.response = Redirect("/dashboard")
        /\ (nav.pc = "done" /\ nav.hops = 0 /\ nav.auth.kind = "no_session"
                /\ nav.pathname = "/") =>
              nav.response = Redirect("/login")

\* the request for /login that followed a redirect from a protected page
\* has been passed through
C33_Witness ==
    /\ nav.pc = "done"
    /\ nav.hops = 1
    /\ nav.pathname = "/login"
    /\ nav.auth.kind = "no_session"
    /\ nav.ran
    /\ nav.response.kind = "next"


-----------------------------------------------------------------------------
(* Properties of the request headers *)

\* C34: when a session exists, the Authorization header of the request that
\* goes out is "Bearer" and the session's access token, whatever headers the
\* caller passed (so two calls that differ only in the Authorization header
\* they pass send the same one), and the session read by the call is the
\* same at its end.
C34_AuthorizationIsSessions ==
    (api.pc \in {"fetch", "done"} /\ api.session.kind = "session") =>
        /\ "authorization" \in DOMAIN api.sent.wire
        /\ api.sent.wire["authorization"] = "Bearer " \o api.session.access_token
        /\ api.session \in SessionOutcomes

====
